---------------------------- MODULE Spec2Model ----------------------------
(***************************************************************************)
(* A model of pg-profiler's analysis-and-reporting engine                  *)
(* (scripts/analyze_data.py): the rule engine (analyze_query_patterns,     *)
(* analyze_table_sizes) as operators, and generate_report as a state       *)
(* machine that writes the report section by section.                      *)
(*                                                                         *)
(* Text is modelled by TLA+ strings (sequences of characters); a number    *)
(* with two decimals is modelled in hundredths where the code compares it  *)
(* against a threshold.                                                    *)
(***************************************************************************)
EXTENDS Integers, Sequences, FiniteSets, TLC

VARIABLES
    config,      \* the ConfigParser object handed to generate_report
    raw_dir,     \* the raw-data directory: file name -> file content
    pc,          \* generate_report's position
    report,      \* the lines written to the report file so far
    artifact,    \* the report file: "none", "open" or "closed"
    latest,      \* the latest_*_file local of each section that has run
    escaped,     \* the exception that left generate_report ("" for none)
    df_rules,    \* the frame handed to a rule-engine function called on its own
    findings     \* what that call returned (<<>> before it returns)

vars == <<config, raw_dir, pc, report, artifact, latest, escaped, df_rules, findings>>

reportVars == <<config, raw_dir, report, artifact, latest, escaped>>

(***************************************************************************)
(* Text: str.upper(), str.lower(), the `in` containment test, slicing and  *)
(* the ordering of str that sorted() uses.                                 *)
(***************************************************************************)
Lowers == "abcdefghijklmnopqrstuvwxyz"
Uppers == "ABCDEFGHIJKLMNOPQRSTUVWXYZ"

\* The characters of the model's file names, in code-point order.
CodePoints == ".0123456789_abcdefghijklmnopqrstuvwxyz"

Min(a, b) == IF a < b THEN a ELSE b

CharAt(s, i) == SubSeq(s, i, i)

\* The translation of each character of `from` to the one of `to` at its place.
Translation(from, to) ==
    [c \in {CharAt(from, i) : i \in 1..Len(from)} |->
        CharAt(to, CHOOSE i \in 1..Len(from) : CharAt(from, i) = c)]

ToUpper == Translation(Lowers, Uppers)

ToLower == Translation(Uppers, Lowers)

MapChar(c, table) == IF c \in DOMAIN table THEN table[c] ELSE c

RECURSIVE MapText(_, _)
MapText(s, table) ==
    IF Len(s) = 0 THEN ""
    ELSE IF Len(s) = 1 THEN MapChar(s, table)
    ELSE MapText(SubSeq(s, 1, Len(s) \div 2), table)
         \o MapText(SubSeq(s, Len(s) \div 2 + 1, Len(s)), table)

\* str.upper()
Upper(s) == MapText(s, ToUpper)

\* str.lower()
Lower(s) == MapText(s, ToLower)

\* needle in hay
Contains(hay, needle) ==
    \E i \in 1..(Len(hay) - Len(needle) + 1) :
        SubSeq(hay, i, i + Len(needle) - 1) = needle

\* s[:n]
Prefix(s, n) == SubSeq(s, 1, Min(n, Len(s)))

StartsWith(s, p) == Len(s) >= Len(p) /\ SubSeq(s, 1, Len(p)) = p

EndsWith(s, p) == Len(s) >= Len(p) /\ SubSeq(s, Len(s) - Len(p) + 1, Len(s)) = p

Ord(c) == CHOOSE i \in 1..Len(CodePoints) : CharAt(CodePoints, i) = c

\* a < b for str: the first differing character decides, a proper prefix is less
RECURSIVE StrLess(_, _)
StrLess(a, b) ==
    IF Len(b) = 0 THEN FALSE
    ELSE IF Len(a) = 0 THEN TRUE
    ELSE IF CharAt(a, 1) = CharAt(b, 1)
         THEN StrLess(SubSeq(a, 2, Len(a)), SubSeq(b, 2, Len(b)))
         ELSE Ord(CharAt(a, 1)) < Ord(CharAt(b, 1))


(***************************************************************************)
(* Numbers.  A float that the code formats with :.2f is rendered as text.  *)
(***************************************************************************)
\* The divisor of line 147, 1024 * 1024.
BytesPerMB == 1024 * 1024

TwoDigits(n) == IF n < 10 THEN "0" \o ToString(n) ELSE ToString(n)

\* f"{x:.2f}" of an integer-valued x
Fmt2(x) == ToString(x) \o ".00"

\* f"{h / 100:.2f}": h counts hundredths
FmtHundredths(h) == ToString(h \div 100) \o "." \o TwoDigits(h % 100)

\* num / den rounded to hundredths, ties to even, as :.2f rounds a float that
\* is exact in binary (den is a power of two)
RoundHundredths(num, den) ==
    LET whole == num \div den
        rest  == (num % den) * 100
        q     == rest \div den
        r     == rest % den
        up    == (2 * r > den) \/ (2 * r = den /\ q % 2 = 1)
    IN  whole * 100 + q + (IF up THEN 1 ELSE 0)

\* f"{bytes / (1024 * 1024):.2f}"
FmtMB(bytes) == FmtHundredths(RoundHundredths(bytes, BytesPerMB))

(***************************************************************************)
(* analyze_query_patterns (lines 8-45)                                     *)
(***************************************************************************)
CallsThreshold == 10
AvgMsThreshold == 100
SuggestionQueryLen == 200

SelectStarRuleCaseSensitive(row) == Contains(row.query, "SELECT *")

SelectStarRule(row) == Contains(Upper(row.query), "SELECT *")

LeadingWildcardRule(row) ==
    \/ Contains(row.query, "LIKE \"%term%\"")
    \/ Contains(row.query, "LIKE '%term%'")

MissingLimitRuleFromTen(row) ==
    /\ Contains(Upper(row.query), "ORDER BY")
    /\ ~Contains(Upper(row.query), "LIMIT")
    /\ row.calls >= CallsThreshold

MissingLimitRule(row) ==
    /\ Contains(Upper(row.query), "ORDER BY")
    /\ ~Contains(Upper(row.query), "LIMIT")
    /\ row.calls > CallsThreshold

ImplicitJoinRule(row) ==
    /\ Contains(Upper(row.query), "JOIN")
    /\ ~Contains(Upper(row.query), "ON")

OrConditionsRule(row) ==
    /\ Contains(Upper(row.query), "OR")
    /\ ~Contains(Upper(row.query), "INDEX")
    /\ ~Contains(Upper(row.query), "UNION")

NoWhereRule(row) ==
    /\ row.avg_ms > AvgMsThreshold
    /\ ~Contains(Upper(row.query), "WHERE")
    /\ ~Contains(Upper(row.query), "JOIN")
    /\ row.calls > CallsThreshold

If(cond, finding) == IF cond THEN <<finding>> ELSE <<>>

\* the `analysis` list of one row: the findings in the order of the checks
RowAnalysis(row) ==
       If(SelectStarRule(row), "Avoid SELECT *")
    \o If(LeadingWildcardRule(row), "Leading Wildcard LIKE")
    \o If(MissingLimitRule(row), "Missing LIMIT with ORDER BY")
    \o If(ImplicitJoinRule(row), "Implicit JOIN")
    \o If(OrConditionsRule(row), "OR conditions")
    \o If(NoWhereRule(row), "No WHERE clause")

\* query[:200] + ('...' if len(query) > 200 else '')
TruncateQuery(query, n) ==
    Prefix(query, n) \o (IF Len(query) > n THEN "..." ELSE "")

Suggestion(row) ==
    [query       |-> TruncateQuery(row.query, SuggestionQueryLen),
     calls       |-> row.calls,
     avg_ms      |-> Fmt2(row.avg_ms),
     suggestions |-> RowAnalysis(row)]

\* one suggestion per row with a non-empty analysis, in row order
RECURSIVE SuggestionsOf(_)
SuggestionsOf(rows) ==
    IF Len(rows) = 0 THEN <<>>
    ELSE (IF Len(RowAnalysis(Head(rows))) > 0
          THEN <<Suggestion(Head(rows))>> ELSE <<>>)
         \o SuggestionsOf(Tail(rows))

analyze_query_patterns(df_queries) == SuggestionsOf(df_queries.rows)

(***************************************************************************)
(* Data frames.  A frame has the columns of the file's header line and one *)
(* record per data line; a record's field is a cell only when its column   *)
(* is one of the frame's columns.                                          *)
(***************************************************************************)
Frame(columns, rows) == [columns |-> columns, rows |-> rows]

\* df.empty
Empty(df) == Len(df.rows) = 0 \/ df.columns = {}

\* df.head(n)
HeadRows(rows, n) == SubSeq(rows, 1, Min(n, Len(rows)))

\* rows kept in order by a boolean mask, df[mask]
Filter(rows, Keep(_)) == SelectSeq(rows, Keep)

\* A stable sort: Before(a, b) says a sorts strictly ahead of b; rows that
\* neither sorts ahead of the other keep their order of appearance.
SortBy(rows, Before(_, _)) ==
    LET n == Len(rows)
        Ahead(j, i) ==
            \/ Before(rows[j], rows[i])
            \/ (~Before(rows[i], rows[j]) /\ j < i)
        Rank(i) == Cardinality({j \in 1..n : j # i /\ Ahead(j, i)})
    IN  [k \in 1..n |-> rows[CHOOSE i \in 1..n : Rank(i) = k - 1]]

(***************************************************************************)
(* analyze_table_sizes (lines 47-72)                                       *)
(***************************************************************************)
LargeTableMB == 100
HighIndexCount == 5

\* df_tables['total_size_bytes'] / (1024 * 1024), kept exact
TableSizeMB(row) == [num |-> row.total_size_bytes, den |-> BytesPerMB]

\* table_size_mb > n
SizeOver(row, n) == TableSizeMB(row).num > n * TableSizeMB(row).den

\* one table_size_mb above another (the denominators are the same)
SizeAbove(a, b) == TableSizeMB(a).num > TableSizeMB(b).num

QualifiedName(row) == row.schema_name \o "." \o row.table_name

MissingPrimaryKey(row) ==
    [rule   |-> "Missing Primary Key",
     table  |-> QualifiedName(row),
     detail |-> FmtMB(row.total_size_bytes) \o "MB"]

MultipleIndexes(row) ==
    [rule   |-> "Multiple Indexes",
     table  |-> QualifiedName(row),
     detail |-> ToString(row.index_count) \o " indexes"]

IsLarge(row) == SizeOver(row, LargeTableMB)

HasNoPkey(row) == ~Contains(Lower(row.indexes), "pkey")

HasManyIndexes(row) == row.index_count > HighIndexCount

MapRows(rows, F(_)) == [i \in 1..Len(rows) |-> F(rows[i])]

\* The result of a call: the value returned, or the text of the exception raised.
Returned(value) == [raised |-> "", value |-> value]
Raised(cause) == [raised |-> cause, value |-> <<>>]

analyze_table_sizes(df_tables) ==
    LET large_tables == Filter(df_tables.rows, IsLarge)
        missing_pk   == MapRows(Filter(large_tables, HasNoPkey), MissingPrimaryKey)
        many_indexes ==
            IF "index_count" \in df_tables.columns
            THEN MapRows(Filter(df_tables.rows, HasManyIndexes), MultipleIndexes)
            ELSE <<>>
    IN  IF Empty(df_tables) THEN Returned(<<>>)
        ELSE IF Len(large_tables) > 0 /\ "indexes" \notin df_tables.columns
             THEN Raised("'indexes'")
        ELSE Returned(missing_pk \o many_indexes)

(***************************************************************************)
(* The configuration (configparser): section name -> key -> text.          *)
(***************************************************************************)
DefaultTopN == 10

Digits == "0123456789"

IsNumeral(s) ==
    /\ Len(s) > 0
    /\ \A i \in 1..Len(s) : Contains(Digits, CharAt(s, i))

DigitValue(c) == (CHOOSE i \in 1..Len(Digits) : CharAt(Digits, i) = c) - 1

RECURSIVE NumeralValue(_)
NumeralValue(s) ==
    IF Len(s) = 0 THEN 0
    ELSE 10 * NumeralValue(SubSeq(s, 1, Len(s) - 1)) + DigitValue(CharAt(s, Len(s)))

\* int(config['analysis'].get('top_n_queries', 10)), line 95
TopN(cfg) ==
    IF "analysis" \notin DOMAIN cfg THEN Raised("'analysis'")
    ELSE IF "top_n_queries" \notin DOMAIN cfg["analysis"] THEN Returned(DefaultTopN)
    ELSE IF IsNumeral(cfg["analysis"]["top_n_queries"])
         THEN Returned(NumeralValue(cfg["analysis"]["top_n_queries"]))
    ELSE Raised("invalid literal for int() with base 10: '"
                \o cfg["analysis"]["top_n_queries"] \o "'")

\* The KeyError of lines 75-76, "" when both directories are configured.
MissingDirectoryKey(cfg) ==
    IF "collection" \notin DOMAIN cfg THEN "'collection'"
    ELSE IF "output_dir_raw" \notin DOMAIN cfg["collection"] THEN "'output_dir_raw'"
    ELSE IF "report_dir" \notin DOMAIN cfg["collection"] THEN "'report_dir'"
    ELSE ""

(***************************************************************************)
(* The raw-data directory and the choice of a category's snapshot.         *)
(***************************************************************************)
\* glob.glob(os.path.join(raw_data_dir, prefix + "*.csv"))
Glob(dir, prefix) ==
    {name \in DOMAIN dir :
        /\ Len(name) >= Len(prefix) + Len(".csv")
        /\ StartsWith(name, prefix)
        /\ EndsWith(name, ".csv")}

\* sorted(names)
Sorted(names) ==
    LET Rank(f) == Cardinality({g \in names : StrLess(g, f)})
    IN  [k \in 1..Cardinality(names) |-> CHOOSE f \in names : Rank(f) = k - 1]

OldestOf(files) == files[1]

\* files[-1]
LatestOf(files) == files[Len(files)]

\* pd.read_csv(name)
ReadCsv(dir, name) ==
    IF dir[name].readable THEN Returned(dir[name].df)
    ELSE Raised("No columns to parse from file")

(***************************************************************************)
(* The report: the lines and markdown tables written, in order.            *)
(***************************************************************************)
Line(text) == [text |-> text, data |-> <<>>]

Detail(text, data) == [text |-> text, data |-> data]

\* df.to_markdown(index=False)
Markdown(rows) == [text |-> "|table|", data |-> rows]

ErrorNote(what, cause) == Line("Error processing " \o what \o ": " \o cause)

(***************************************************************************)
(* generate_report, "Query Performance Analysis" (lines 86-135)            *)
(***************************************************************************)
DisplayQueryLen == 100
SuggestionLimit == 10
MsPerSecond == 1000

QueryColumns == <<"query", "calls", "total_ms", "avg_ms", "min_ms", "max_ms">>

RECURSIVE SumSeq(_)
SumSeq(ns) == IF Len(ns) = 0 THEN 0 ELSE Head(ns) + SumSeq(Tail(ns))

RECURSIVE MaxSeq(_)
MaxSeq(ns) ==
    IF Len(ns) = 1 THEN Head(ns)
    ELSE IF Head(ns) >= MaxSeq(Tail(ns)) THEN Head(ns) ELSE MaxSeq(Tail(ns))

RECURSIVE Join(_, _)
Join(texts, sep) ==
    IF Len(texts) = 0 THEN ""
    ELSE IF Len(texts) = 1 THEN Head(texts)
    ELSE Head(texts) \o sep \o Join(Tail(texts), sep)

Quoted(text) == "'" \o text \o "'"

\* The KeyError of lines 100 and 104 for a frame without all the columns
\* the table shows, "" when it has them.
MissingQueryColumn(df) ==
    LET Absent(c) == c \notin df.columns
        absent == SelectSeq(QueryColumns, Absent)
    IN  IF "query" \notin df.columns THEN "'query'"
        ELSE IF Len(absent) > 0
             THEN "\"[" \o Join(MapRows(absent, Quoted), ", ") \o "] not in index\""
        ELSE ""

\* One row of the table of line 104.
DisplayQuery(row) ==
    [query    |-> TruncateQuery(row.query, DisplayQueryLen),
     calls    |-> row.calls,
     total_ms |-> row.total_ms,
     avg_ms   |-> row.avg_ms,
     min_ms   |-> row.min_ms,
     max_ms   |-> row.max_ms]

\* The first top_n rows as they come: nothing here sorts them.
TopQueries(df, top_n) == MapRows(HeadRows(df.rows, top_n), DisplayQuery)

TotalMs(row) == row.total_ms
AvgMs(row) == row.avg_ms
MaxMs(row) == row.max_ms

QuerySummary(df) ==
    <<Line("### Query Performance Summary"),
      Line("- Total queries collected: " \o ToString(Len(df.rows))),
      Line("- Total execution time: "
           \o FmtHundredths(RoundHundredths(SumSeq(MapRows(df.rows, TotalMs)), MsPerSecond))
           \o " seconds"),
      Line("- Average query time: "
           \o FmtHundredths(RoundHundredths(SumSeq(MapRows(df.rows, AvgMs)), Len(df.rows)))
           \o " ms"),
      Line("- Slowest query: " \o Fmt2(MaxSeq(MapRows(df.rows, MaxMs))) \o " ms")>>

\* Lines 115-128.
Recommendations(df) ==
    LET query_suggestions == analyze_query_patterns(df)
        shown == HeadRows(query_suggestions, SuggestionLimit)
    IN  <<Line("## 2. Optimization Recommendations")>>
        \o (IF Len(query_suggestions) > 0
            THEN <<Line("### Query Optimization Opportunities"),
                   Line("The following queries might benefit from optimization:")>>
                 \o [i \in 1..Len(shown) |->
                        Detail(ToString(i) \o ". **Query**", <<shown[i]>>)]
            ELSE <<Line("No obvious query optimization opportunities detected.")>>)

\* Lines 94-128: what the try block writes for a frame with rows.
QueryStatsBody(cfg, df) ==
    LET top_n == TopN(cfg)
    IN  IF top_n.raised # "" THEN <<ErrorNote("query stats", top_n.raised)>>
        ELSE <<Line("### Top " \o ToString(top_n.value)
                    \o " Queries by Total Execution Time")>>
             \o (IF MissingQueryColumn(df) # ""
                 THEN <<ErrorNote("query stats", MissingQueryColumn(df))>>
                 ELSE <<Markdown(TopQueries(df, top_n.value))>>
                      \o QuerySummary(df)
                      \o Recommendations(df))

QueryPerformanceLines(cfg, dir) ==
    LET query_stats_files == Sorted(Glob(dir, "query_stats_"))
        df_queries == ReadCsv(dir, LatestOf(query_stats_files))
    IN  <<Line("## 1. Query Performance Analysis")>>
        \o (IF Len(query_stats_files) = 0
            THEN <<Line("No query statistics data found.")>>
            ELSE IF df_queries.raised # ""
                 THEN <<ErrorNote("query stats", df_queries.raised)>>
            ELSE IF Empty(df_queries.value)
                 THEN <<Line("No query statistics data found or pg_stat_statements is not enabled/populated.")>>
            ELSE QueryStatsBody(cfg, df_queries.value))

\* The latest_*_file local of a section: unset ("") when no file matched.
LatestLocal(dir, prefix) ==
    IF Glob(dir, prefix) = {} THEN "" ELSE LatestOf(Sorted(Glob(dir, prefix)))

(***************************************************************************)
(* generate_report, "Table Analysis" (lines 137-165)                       *)
(***************************************************************************)
LargestTablesLimit == 10
TableSuggestionLimit == 5

\* One row of the table of lines 149-151.
LargestTableRow(row) ==
    [Schema  |-> row.schema_name,
     Table   |-> row.table_name,
     Size_MB |-> FmtMB(row.total_size_bytes)]

\* df_tables.nlargest(10, 'table_size_mb'): ties keep their order of appearance
NLargest(rows, n) == HeadRows(SortBy(rows, SizeAbove), n)

TableFindingLine(finding) == Detail("- " \o finding.rule, <<finding>>)

TableSuggestionsUncapped(df) ==
    LET table_suggestions == analyze_table_sizes(df)
    IN  IF table_suggestions.raised # ""
        THEN <<ErrorNote("table sizes", table_suggestions.raised)>>
        ELSE IF Len(table_suggestions.value) > 0
             THEN <<Line("### Table Optimization Opportunities")>>
                  \o MapRows(table_suggestions.value, TableFindingLine)
        ELSE <<>>

\* Lines 153-158.
TableSuggestions(df) ==
    LET table_suggestions == analyze_table_sizes(df)
    IN  IF table_suggestions.raised # ""
        THEN <<ErrorNote("table sizes", table_suggestions.raised)>>
        ELSE IF Len(table_suggestions.value) > 0
             THEN <<Line("### Table Optimization Opportunities")>>
                  \o MapRows(HeadRows(table_suggestions.value, TableSuggestionLimit),
                             TableFindingLine)
        ELSE <<>>

TableAnalysisLines(dir) ==
    LET table_size_files == Sorted(Glob(dir, "table_sizes_"))
        df_tables == ReadCsv(dir, LatestOf(table_size_files))
    IN  <<Line("## 3. Table Analysis")>>
        \o (IF Len(table_size_files) = 0
            THEN <<Line("No table size data files found.")>>
            ELSE IF df_tables.raised # ""
                 THEN <<ErrorNote("table sizes", df_tables.raised)>>
            ELSE IF Empty(df_tables.value)
                 THEN <<Line("No table size data available.")>>
            ELSE <<Line("### Largest Tables")>>
                 \o (IF "total_size_bytes" \notin df_tables.value.columns
                     THEN <<ErrorNote("table sizes", "'total_size_bytes'")>>
                     ELSE <<Markdown(MapRows(NLargest(df_tables.value.rows, LargestTablesLimit),
                                             LargestTableRow))>>
                          \o TableSuggestions(df_tables.value)))

(***************************************************************************)
(* generate_report, "Resource Usage Analysis" (lines 167-213)              *)
(***************************************************************************)
CacheHitThreshold == 90

\* The missing value pandas gives an empty numeric cell; every number of a
\* snapshot is non-negative.
NaN == -1

\* a < b on floats: false when either side is NaN
FloatLess(a, b) == a # NaN /\ b # NaN /\ a < b

ThreeDigits(n) == IF n < 100 THEN "0" \o TwoDigits(n) ELSE ToString(n)

\* f"{n:,}"
RECURSIVE FmtThousands(_)
FmtThousands(n) ==
    IF n < 1000 THEN ToString(n)
    ELSE FmtThousands(n \div 1000) \o "," \o ThreeDigits(n % 1000)

\* f"{cache_ratio:.2f}" of a ratio counted in hundredths of a percent
FmtRatio(ratio) == IF ratio = NaN THEN "nan" ELSE FmtHundredths(ratio)

IsLowCacheHitRatioInclusive(cache_ratio) == FloatLess(cache_ratio, CacheHitThreshold * 100 + 1)

\* cache_ratio < 90, line 180
IsLowCacheHitRatio(cache_ratio) == FloatLess(cache_ratio, CacheHitThreshold * 100)

\* Lines 177-183.
CacheHitRatioLines(df) ==
    LET cache_ratio == df.rows[1].cache_hit_ratio
    IN  IF "cache_hit_ratio" \notin df.columns THEN <<>>
        ELSE <<Line("- **Cache Hit Ratio**: " \o FmtRatio(cache_ratio) \o "%"),
               IF IsLowCacheHitRatio(cache_ratio)
               THEN Line("  - **Low cache hit ratio**. Consider increasing shared_buffers if you have available RAM.")
               ELSE Line("  - Good cache hit ratio.")>>

\* Lines 186-188.
DatabaseSizeLines(df) ==
    IF "database_size_mb" \notin df.columns THEN <<>>
    ELSE <<Line("- **Database Size**: "
                \o FmtThousands(df.rows[1].database_size_mb) \o ".00 MB")>>

\* Lines 169-197.  The write of line 197 belongs to the `if db_stats_files`
\* block: it follows whatever the try block wrote.
DbStatsLines(dir) ==
    LET db_stats_files == Sorted(Glob(dir, "db_stats_"))
        df_db_stats == ReadCsv(dir, LatestOf(db_stats_files))
    IN  IF Len(db_stats_files) = 0 THEN <<>>
        ELSE (IF df_db_stats.raised # ""
              THEN <<ErrorNote("DB stats", df_db_stats.raised)>>
              ELSE IF Empty(df_db_stats.value)
                   THEN <<Line("No database statistics data found.")>>
              ELSE <<Line("### Database Statistics")>>
                   \o CacheHitRatioLines(df_db_stats.value)
                   \o DatabaseSizeLines(df_db_stats.value))
             \o <<Line("No database statistics data found.")>>

\* The cells of a row under the frame's columns.
RowCells(df, row) == [c \in df.columns |-> row[c]]

\* df.to_markdown(index=False) of whole rows
MarkdownOf(df, rows) == Markdown([i \in 1..Len(rows) |-> RowCells(df, rows[i])])

\* Lines 199-213.
BgwriterLines(dir) ==
    LET bgwriter_stats_files == Sorted(Glob(dir, "bgwriter_stats_"))
        df_bgwriter_stats == ReadCsv(dir, LatestOf(bgwriter_stats_files))
    IN  IF Len(bgwriter_stats_files) = 0
        THEN <<Line("No background writer statistics data found.")>>
        ELSE IF df_bgwriter_stats.raised # ""
             THEN <<ErrorNote("BGWriter stats", df_bgwriter_stats.raised)>>
        ELSE IF Empty(df_bgwriter_stats.value)
             THEN <<Line("No background writer statistics data found.")>>
        ELSE <<Line("### Background Writer Statistics"),
               MarkdownOf(df_bgwriter_stats.value, df_bgwriter_stats.value.rows)>>

ResourceUsageLines(dir) ==
    <<Line("## 4. Resource Usage Analysis")>> \o DbStatsLines(dir) \o BgwriterLines(dir)

(***************************************************************************)
(* generate_report, "Connection Information" (lines 216-237)               *)
(***************************************************************************)
ActiveConnectionsLimit == 10

IsActive(row) == row.state = "active"
IsIdle(row) == row.state = "idle"
IsIdleInTransaction(row) == row.state = "idle in transaction"

\* sort_values(by='query_start', ascending=True)
StartsEarlier(a, b) == a.query_start < b.query_start

\* Lines 223-231 for a frame with rows.
ConnectionBody(df) ==
    IF "state" \notin df.columns THEN <<ErrorNote("connection info", "'state'")>>
    ELSE <<Line("Total active connections: "
                \o ToString(Len(Filter(df.rows, IsActive)))),
           Line("Total idle connections: "
                \o ToString(Len(Filter(df.rows, IsIdle)))),
           Line("Total idle in transaction connections: "
                \o ToString(Len(Filter(df.rows, IsIdleInTransaction)))),
           Line("Top 10 Active Connections (by query start time):")>>
         \o (IF "query_start" \notin df.columns
             THEN <<ErrorNote("connection info", "'query_start'")>>
             ELSE <<MarkdownOf(df, HeadRows(SortBy(Filter(df.rows, IsActive), StartsEarlier),
                                            ActiveConnectionsLimit))>>)

ConnectionLines(dir) ==
    LET conn_info_files == Sorted(Glob(dir, "connection_info_"))
        df_conn == ReadCsv(dir, LatestOf(conn_info_files))
    IN  <<Line("## 3. Connection Information")>>
        \o (IF Len(conn_info_files) = 0
            THEN <<Line("No connection information found.")>>
            ELSE IF df_conn.raised # ""
                 THEN <<ErrorNote("connection info", df_conn.raised)>>
            ELSE IF Empty(df_conn.value)
                 THEN <<Line("No connection information found.")>>
            ELSE ConnectionBody(df_conn.value))

(***************************************************************************)
(* generate_report, "Lock Information" (lines 239-261)                     *)
(***************************************************************************)
\* df_locks['granted'] == True; the cell is the text of the file, "" when
\* the cell is empty
IsGranted(row) == row.granted = "True"

\* df_locks['granted'] == False
IsWaiting(row) == row.granted = "False"

\* Lines 246-255 for a frame with rows.
LockBody(df) ==
    <<Line("Total active locks: " \o ToString(Len(df.rows)))>>
    \o (IF "granted" \notin df.columns
        THEN <<ErrorNote("lock info", "'granted'")>>
        ELSE <<Line("Total granted locks: " \o ToString(Len(Filter(df.rows, IsGranted)))),
               Line("Total waiting locks: " \o ToString(Len(Filter(df.rows, IsWaiting))))>>
             \o (IF Len(Filter(df.rows, IsWaiting)) > 0
                 THEN <<Line("Waiting Locks:"), MarkdownOf(df, Filter(df.rows, IsWaiting))>>
                 ELSE <<Line("No waiting locks identified.")>>))

LockLines(dir) ==
    LET lock_info_files == Sorted(Glob(dir, "lock_info_"))
        df_locks == ReadCsv(dir, LatestOf(lock_info_files))
    IN  <<Line("## 4. Lock Information")>>
        \o (IF Len(lock_info_files) = 0
            THEN <<Line("No lock information found.")>>
            ELSE IF df_locks.raised # ""
                 THEN <<ErrorNote("lock info", df_locks.raised)>>
            ELSE IF Empty(df_locks.value)
                 THEN <<Line("No lock information found.")>>
            ELSE LockBody(df_locks.value))

(***************************************************************************)
(* generate_report, "Table and Index Sizes" (lines 263-284)                *)
(***************************************************************************)
TableSizesLimit == 10

\* df_table_sizes.head(10): the first rows of the file as they come
FirstTables(rows, n) == HeadRows(rows, n)

TableSizesLines(dir) ==
    LET table_sizes_files == Sorted(Glob(dir, "table_sizes_"))
        df_table_sizes == ReadCsv(dir, LatestOf(table_sizes_files))
    IN  <<Line("## 5. Table and Index Sizes")>>
        \o (IF Len(table_sizes_files) = 0
            THEN <<Line("No table size information found.")>>
            ELSE IF df_table_sizes.raised # ""
                 THEN <<ErrorNote("table sizes", df_table_sizes.raised)>>
            ELSE IF Empty(df_table_sizes.value)
                 THEN <<Line("No table size information found.")>>
            ELSE <<Line("Largest Tables by Total Size:"),
                   MarkdownOf(df_table_sizes.value,
                              FirstTables(df_table_sizes.value.rows, TableSizesLimit))>>)

(***************************************************************************)
(* generate_report (lines 74-287), one step per section.                   *)
(***************************************************************************)
NoLatest ==
    [query_stats |-> "", table_size |-> "", db_stats |-> "", bgwriter_stats |-> "",
     conn_info |-> "", lock_info |-> "", table_sizes |-> ""]

\* Lines 75-84: the directories are read from the configuration, then the
\* report file is created and its title written.
OpenReport ==
    /\ pc = "start"
    /\ IF MissingDirectoryKey(config) # ""
       THEN /\ escaped' = "KeyError: " \o MissingDirectoryKey(config)
            /\ pc' = "aborted"
            /\ UNCHANGED <<report, artifact>>
       ELSE /\ artifact' = "open"
            /\ report' = <<Line("# PostgreSQL Performance Analysis Report"),
                           Line("This report provides performance metrics and optimization suggestions for your PostgreSQL database.")>>
            /\ pc' = "query"
            /\ UNCHANGED escaped
    /\ UNCHANGED <<config, raw_dir, latest, df_rules, findings>>

QueryPerformance ==
    /\ pc = "query"
    /\ report' = report \o QueryPerformanceLines(config, raw_dir)
    /\ latest' = [latest EXCEPT !.query_stats = LatestLocal(raw_dir, "query_stats_")]
    /\ pc' = "table"
    /\ UNCHANGED <<config, raw_dir, artifact, escaped, df_rules, findings>>

TableAnalysis ==
    /\ pc = "table"
    /\ report' = report \o TableAnalysisLines(raw_dir)
    /\ latest' = [latest EXCEPT !.table_size = LatestLocal(raw_dir, "table_sizes_")]
    /\ pc' = "resource"
    /\ UNCHANGED <<config, raw_dir, artifact, escaped, df_rules, findings>>

ResourceUsage ==
    /\ pc = "resource"
    /\ report' = report \o ResourceUsageLines(raw_dir)
    /\ latest' = [latest EXCEPT !.db_stats = LatestLocal(raw_dir, "db_stats_"),
                                !.bgwriter_stats = LatestLocal(raw_dir, "bgwriter_stats_")]
    /\ pc' = "connection"
    /\ UNCHANGED <<config, raw_dir, artifact, escaped, df_rules, findings>>

ConnectionInformation ==
    /\ pc = "connection"
    /\ report' = report \o ConnectionLines(raw_dir)
    /\ latest' = [latest EXCEPT !.conn_info = LatestLocal(raw_dir, "connection_info_")]
    /\ pc' = "lock"
    /\ UNCHANGED <<config, raw_dir, artifact, escaped, df_rules, findings>>

LockInformation ==
    /\ pc = "lock"
    /\ report' = report \o LockLines(raw_dir)
    /\ latest' = [latest EXCEPT !.lock_info = LatestLocal(raw_dir, "lock_info_")]
    /\ pc' = "sizes"
    /\ UNCHANGED <<config, raw_dir, artifact, escaped, df_rules, findings>>

TableAndIndexSizes ==
    /\ pc = "sizes"
    /\ report' = report \o TableSizesLines(raw_dir)
    /\ latest' = [latest EXCEPT !.table_sizes = LatestLocal(raw_dir, "table_sizes_")]
    /\ pc' = "end"
    /\ UNCHANGED <<config, raw_dir, artifact, escaped, df_rules, findings>>

\* Line 286, and the end of the with block.
EndOfReport ==
    /\ pc = "end"
    /\ report' = report \o <<Line("*End of Report*")>>
    /\ artifact' = "closed"
    /\ pc' = "done"
    /\ UNCHANGED <<config, raw_dir, latest, escaped, df_rules, findings>>

(***************************************************************************)
(* The inputs of a run: configurations, snapshot files, directories.       *)
(***************************************************************************)
MaxQueryRows == 3
MaxTableRows == 3
MaxLockRows == 3
MaxRuleRows == 2
MaxFindingRows == 11

Directories == [output_dir_raw |-> "data/raw", report_dir |-> "reports"]

FullConfig == [collection |-> Directories, analysis |-> [top_n_queries |-> "2"]]

\* config.read() of a missing config.ini leaves the parser without sections.
NoConfig == <<>>

Configs ==
    { FullConfig,
      [collection |-> Directories, analysis |-> <<>>],
      [collection |-> Directories, analysis |-> [top_n_queries |-> "ten"]],
      [collection |-> Directories],
      [analysis |-> [top_n_queries |-> "2"]],
      [collection |-> [report_dir |-> "reports"], analysis |-> [top_n_queries |-> "2"]],
      [collection |-> [output_dir_raw |-> "data/raw"], analysis |-> [top_n_queries |-> "2"]],
      NoConfig }

File(df) == [readable |-> TRUE, df |-> df]

\* a file pd.read_csv cannot parse (no header line)
Unreadable == [readable |-> FALSE, df |-> Frame({}, <<>>)]

Stamp == "20240101_120000"

Snapshot(prefix, stamp, content) == (prefix \o stamp \o ".csv") :> content

EmptyDir == <<>>

Prefixes ==
    {"query_stats_", "table_sizes_", "db_stats_", "bgwriter_stats_",
     "connection_info_", "lock_info_"}

QueryColumnSet == {QueryColumns[i] : i \in 1..Len(QueryColumns)}

QueryRow(query, calls, total_ms, avg_ms) ==
    [query |-> query, calls |-> calls, total_ms |-> total_ms, avg_ms |-> avg_ms,
     min_ms |-> 1, max_ms |-> 2 * avg_ms]

\* Rows with distinct total execution times.
QueryRowPool ==
    { QueryRow("SELECT * FROM users", 40, 900, 22),
      QueryRow("select id from orders order by created_at", 11, 4000, 363),
      QueryRow("UPDATE accounts SET balance = balance - $1 WHERE id = $2", 5, 70, 14),
      QueryRow("SELECT id FROM t WHERE name LIKE '%term%'", 20, 2500, 125) }

TableColumnSet == {"schema_name", "table_name", "total_size_bytes", "indexes", "index_count"}

TableRow(table_name, bytes, indexes, index_count) ==
    [schema_name |-> "public", table_name |-> table_name, total_size_bytes |-> bytes,
     indexes |-> indexes, index_count |-> index_count]

TableRowPool ==
    { TableRow("events", 52428800, "events_pkey, events_ts_idx", 2),
      TableRow("audit_log", 209715200, "audit_log_ts_idx", 1),
      TableRow("settings", 1048576, "settings_PKEY", 6),
      TableRow("orders", 157286400, "orders_pkey, i1, i2, i3, i4, i5, i6", 7) }

\* All the sequences of at most n distinct elements of a set.
Arrangements(S, n) ==
    UNION { {q \in [1..k -> S] : \A i, j \in 1..k : q[i] = q[j] => i = j} : k \in 1..n }

DbRow(cache_hit_ratio, database_size_mb) ==
    [cache_hit_ratio |-> cache_hit_ratio, database_size_mb |-> database_size_mb]

\* Cache hit ratios in hundredths of a percent: 89.99, 90.00, 90.01, ...
RatioSamples == {0, 4250, 8999, 9000, 9001, 10000, NaN}

BgwriterFrame ==
    Frame({"checkpoints_timed", "buffers_clean"},
          <<[checkpoints_timed |-> 12, buffers_clean |-> 340]>>)

ConnRow(pid, state, query_start) == [pid |-> pid, state |-> state, query_start |-> query_start]

ConnFrame ==
    Frame({"pid", "state", "query_start"},
          <<ConnRow(101, "active", 300), ConnRow(102, "idle", 100),
            ConnRow(103, "active", 200), ConnRow(104, "idle in transaction", 250)>>)

LockRow(pid, granted) == [pid |-> pid, granted |-> granted]

\* The text of a granted cell: a boolean, or nothing.
GrantedCells == {"True", "False", ""}

LockFrames ==
    { Frame({"pid", "granted"}, [i \in 1..Len(g) |-> LockRow(i, g[i])]) :
        g \in UNION {[1..k -> GrantedCells] : k \in 1..MaxLockRows} }

\* One frame with rows for each category.
SampleFrame(prefix) ==
    CASE prefix = "query_stats_" ->
           Frame(QueryColumnSet,
                 <<QueryRow("select id from orders order by created_at", 11, 4000, 363),
                   QueryRow("UPDATE accounts SET balance = balance - $1 WHERE id = $2", 5, 70, 14)>>)
      [] prefix = "table_sizes_" ->
           Frame(TableColumnSet,
                 <<TableRow("audit_log", 209715200, "audit_log_ts_idx", 1),
                   TableRow("events", 52428800, "events_pkey, events_ts_idx", 2)>>)
      [] prefix = "db_stats_" ->
           Frame({"cache_hit_ratio", "database_size_mb"}, <<DbRow(9712, 1234567)>>)
      [] prefix = "bgwriter_stats_" -> BgwriterFrame
      [] prefix = "connection_info_" -> ConnFrame
      [] prefix = "lock_info_" ->
           Frame({"pid", "granted"}, <<LockRow(1, "True"), LockRow(2, "False")>>)

\* a file with a header line and no data line
HeaderOnly(prefix) == Frame(SampleFrame(prefix).columns, <<>>)

Statuses == {"absent", "empty", "rows", "unreadable"}

CategoryFiles(prefix, status) ==
    CASE status = "absent" -> EmptyDir
      [] status = "empty" -> Snapshot(prefix, Stamp, File(HeaderOnly(prefix)))
      [] status = "rows" -> Snapshot(prefix, Stamp, File(SampleFrame(prefix)))
      [] status = "unreadable" -> Snapshot(prefix, Stamp, Unreadable)

DirectoryOf(status) ==
    CategoryFiles("query_stats_", status["query_stats_"])
    @@ CategoryFiles("table_sizes_", status["table_sizes_"])
    @@ CategoryFiles("db_stats_", status["db_stats_"])
    @@ CategoryFiles("bgwriter_stats_", status["bgwriter_stats_"])
    @@ CategoryFiles("connection_info_", status["connection_info_"])
    @@ CategoryFiles("lock_info_", status["lock_info_"])

\* Every combination of absent, empty, present and unreadable categories.
StructureInputs ==
    /\ config = FullConfig
    /\ \E status \in [Prefixes -> Statuses] : raw_dir = DirectoryOf(status)

\* Query statistics in any row order, with or without the max_ms column,
\* under every configuration; and no snapshot at all under every configuration.
QueryInputs ==
    /\ config \in Configs
    /\ \/ raw_dir = EmptyDir
       \/ \E rows \in Arrangements(QueryRowPool, MaxQueryRows),
             columns \in {QueryColumnSet, QueryColumnSet \ {"max_ms"}} :
             raw_dir = Snapshot("query_stats_", Stamp, File(Frame(columns, rows)))

\* Table sizes in any row order, with and without the optional columns.
TableInputs ==
    /\ config = FullConfig
    /\ \E rows \in Arrangements(TableRowPool, MaxTableRows),
          columns \in {TableColumnSet, TableColumnSet \ {"index_count"},
                       TableColumnSet \ {"indexes"},
                       TableColumnSet \ {"total_size_bytes"}} :
          raw_dir = Snapshot("table_sizes_", Stamp, File(Frame(columns, rows)))

DbStatsInputs ==
    /\ config = FullConfig
    /\ \E ratio \in RatioSamples, size \in {15, 1234567},
          columns \in {{"cache_hit_ratio", "database_size_mb"}, {"cache_hit_ratio"},
                       {"database_size_mb"}} :
          raw_dir = Snapshot("db_stats_", Stamp, File(Frame(columns, <<DbRow(ratio, size)>>)))

LockInputs ==
    /\ config = FullConfig
    /\ \E df \in LockFrames : raw_dir = Snapshot("lock_info_", Stamp, File(df))

\* File names of one category under several capture stamps, beside files that
\* are not snapshots of it.
StampPool == {"20231231_235959", "20240101_120000", "20240102_000000", "backup"}

LaterStamp == "20250101_000000"

OtherPrefix(prefix) == IF prefix = "lock_info_" THEN "db_stats_" ELSE "lock_info_"

ContentAt(prefix, stamp) ==
    CASE stamp = "20231231_235959" -> Unreadable
      [] stamp = "20240102_000000" -> File(SampleFrame(prefix))
      [] OTHER -> File(HeaderOnly(prefix))

Strangers(prefix) ==
    { (prefix \o LaterStamp \o ".txt") :> File(SampleFrame(prefix)),
      ("old_" \o prefix \o LaterStamp \o ".csv") :> File(SampleFrame(prefix)),
      Snapshot(OtherPrefix(prefix), LaterStamp, File(HeaderOnly(OtherPrefix(prefix)))) }

RECURSIVE Merge(_)
Merge(files) ==
    IF files = {} THEN EmptyDir
    ELSE LET f == CHOOSE f \in files : TRUE IN f @@ Merge(files \ {f})

SelectionInputs ==
    /\ config = FullConfig
    /\ \E prefix \in Prefixes, stamps \in SUBSET StampPool :
       \E strangers \in SUBSET Strangers(prefix) :
          raw_dir = Merge({Snapshot(prefix, stamp, ContentAt(prefix, stamp)) : stamp \in stamps}
                          \cup strangers)

\* n query rows that each get a finding, slowest first as the collector
\* writes them.
FindingQueryRows(n) ==
    [i \in 1..n |-> QueryRow("SELECT * FROM t" \o ToString(i), 40, 100 * (n - i + 1), 5)]

\* n large tables with more than 5 indexes each, with or without a primary key.
FindingTableRows(n, indexes) ==
    [i \in 1..n |-> TableRow("t" \o ToString(i), 209715200 - i, indexes, 6)]

\* Snapshots with up to MaxFindingRows rows that all get findings.
FindingInputs ==
    /\ config = FullConfig
    /\ \E n \in 1..MaxFindingRows, indexes \in {"t_ts_idx", "t_pkey, t_ts_idx"} :
          raw_dir = Snapshot("query_stats_", Stamp,
                             File(Frame(QueryColumnSet, FindingQueryRows(n))))
                    @@ Snapshot("table_sizes_", Stamp,
                                File(Frame(TableColumnSet, FindingTableRows(n, indexes))))

ReportInit ==
    /\ \/ StructureInputs
       \/ QueryInputs
       \/ TableInputs
       \/ DbStatsInputs
       \/ LockInputs
       \/ SelectionInputs
       \/ FindingInputs
    /\ pc = "start"
    /\ report = <<>>
    /\ artifact = "none"
    /\ latest = NoLatest
    /\ escaped = ""
    /\ df_rules = Frame({}, <<>>)
    /\ findings = <<>>

Init == ReportInit

Next ==
    \/ OpenReport
    \/ QueryPerformance
    \/ TableAnalysis
    \/ ResourceUsage
    \/ ConnectionInformation
    \/ LockInformation
    \/ TableAndIndexSizes
    \/ EndOfReport

Spec == Init /\ [][Next]_vars

(***************************************************************************)
(* The rule engine called on its own: one call of analyze_query_patterns   *)
(* or analyze_table_sizes on a frame.                                      *)
(***************************************************************************)
SelectParts == {"SELECT *", "select *", "Select *", "SELECT  *", "SELECT*", "SELECT id", "select count(*)"}

TailParts ==
    {"", " ORDER BY x", " order by x", " ORDER BY x LIMIT 5", " order by x limit 5",
     " WHERE name LIKE '%term%'", " WHERE name like '%abc%'"}

RuleQueries == {select \o " FROM t" \o tail : select \in SelectParts, tail \in TailParts}

CallSamples == {0, 9, 10, 11, 12}

AvgMsSamples == {100, 101}

RuleRows ==
    {QueryRow(query, calls, 10 * calls, avg_ms) :
        query \in RuleQueries, calls \in CallSamples, avg_ms \in AvgMsSamples}

\* Sequences of at most n elements of a set.
Sequences(S, n) == UNION {[1..k -> S] : k \in 1..n}

QueryRuleInputs ==
    /\ pc = "analyze_query_patterns"
    /\ \/ \E row \in RuleRows : df_rules = Frame(QueryColumnSet, <<row>>)
       \/ \E rows \in Sequences(QueryRowPool, MaxRuleRows) :
             df_rules = Frame(QueryColumnSet, rows)

TableRuleInputs ==
    /\ pc = "analyze_table_sizes"
    /\ \/ df_rules = Frame(TableColumnSet, <<>>)
       \/ \E rows \in Sequences(TableRowPool, MaxRuleRows),
             columns \in {TableColumnSet, TableColumnSet \ {"index_count"},
                          TableColumnSet \ {"indexes"}} :
             df_rules = Frame(columns, rows)

RulesInit ==
    /\ \/ QueryRuleInputs
       \/ TableRuleInputs
    /\ findings = <<>>
    /\ escaped = ""
    /\ config = FullConfig
    /\ raw_dir = EmptyDir
    /\ report = <<>>
    /\ artifact = "none"
    /\ latest = NoLatest

AnalyzeQueryPatterns ==
    /\ pc = "analyze_query_patterns"
    /\ findings' = analyze_query_patterns(df_rules)
    /\ pc' = "analyze_query_patterns returned"
    /\ UNCHANGED <<df_rules, reportVars>>

AnalyzeTableSizes ==
    /\ pc = "analyze_table_sizes"
    /\ findings' = analyze_table_sizes(df_rules).value
    /\ escaped' = analyze_table_sizes(df_rules).raised
    /\ pc' = "analyze_table_sizes returned"
    /\ UNCHANGED <<df_rules, config, raw_dir, report, artifact, latest>>

RulesNext ==
    \/ AnalyzeQueryPatterns
    \/ AnalyzeTableSizes

SpecRules == RulesInit /\ [][RulesNext]_vars

(***************************************************************************)
(* Properties.                                                             *)
(***************************************************************************)
Steps == <<"start", "query", "table", "resource", "connection", "lock", "sizes", "end", "done">>

StepOf(p) == CHOOSE i \in 1..Len(Steps) : Steps[i] = p

\* generate_report is past the step that starts at position p.
Past(p) == pc \in {Steps[i] : i \in 1..Len(Steps)} /\ StepOf(pc) > StepOf(p)

Written(text) == \E i \in 1..Len(report) : report[i].text = text

TextOf(item) == item.text

IsSectionHeading(item) == StartsWith(item.text, "## ")

SectionHeadings == MapRows(SelectSeq(report, IsSectionHeading), TextOf)

FixedSections ==
    <<"## 1. Query Performance Analysis",
      "## 2. Optimization Recommendations",
      "## 3. Table Analysis",
      "## 4. Resource Usage Analysis",
      "## 3. Connection Information",
      "## 4. Lock Information",
      "## 5. Table and Index Sizes">>

IsNotice(item) == StartsWith(item.text, "No ")

\* The line that follows a written line, an empty line when nothing follows.
Following(text) ==
    LET i == CHOOSE i \in 1..Len(report) : report[i].text = text
    IN  IF i < Len(report) THEN report[i + 1] ELSE Line("")

\* C1: whatever categories are present, absent or empty, the finished report
\* holds the seven section headings, numbered and ordered the same way.
C1_FixedSections == pc = "done" => SectionHeadings = FixedSections

\* C2: a run over a directory without snapshot files ends without an
\* exception and writes every fixed section, each followed by a "no data"
\* notice; the database statistics notice is one of them.
C2_NoSnapshots ==
    (pc \in {"done", "aborted"} /\ MissingDirectoryKey(config) = ""
        /\ \A prefix \in Prefixes : Glob(raw_dir, prefix) = {})
    => /\ escaped = ""
       /\ SectionHeadings = FixedSections
       /\ \A k \in 1..Len(FixedSections) : IsNotice(Following(FixedSections[k]))
       /\ Written("No database statistics data found.")

ErrorWhat(prefix) ==
    CASE prefix = "query_stats_" -> "query stats"
      [] prefix = "table_sizes_" -> "table sizes"
      [] prefix = "db_stats_" -> "DB stats"
      [] prefix = "bgwriter_stats_" -> "BGWriter stats"
      [] prefix = "connection_info_" -> "connection info"
      [] prefix = "lock_info_" -> "lock info"

ReadFails(prefix) ==
    /\ Glob(raw_dir, prefix) # {}
    /\ ~raw_dir[LatestLocal(raw_dir, prefix)].readable

HasRows(prefix) ==
    /\ Glob(raw_dir, prefix) # {}
    /\ raw_dir[LatestLocal(raw_dir, prefix)].readable
    /\ ~Empty(raw_dir[LatestLocal(raw_dir, prefix)].df)

\* C3: when one category's snapshot cannot be read and the others have rows,
\* the report carries that category's error note with the cause, still holds
\* every section (the optimization recommendations too) and ends with the
\* end-of-report marker.
C3_FailureContained ==
    \A bad \in Prefixes :
        (/\ pc = "done"
         /\ ReadFails(bad)
         /\ \A other \in Prefixes \ {bad} : HasRows(other))
        => /\ Written(ErrorNote(ErrorWhat(bad), "No columns to parse from file").text)
           /\ \A other \in Prefixes \ {bad} :
                 ~Written(ErrorNote(ErrorWhat(other), "No columns to parse from file").text)
           /\ SectionHeadings = FixedSections
           /\ report[Len(report)].text = "*End of Report*"

IsTopHeading(item) == StartsWith(item.text, "### Top ")

\* The rows of the table written after the "Top N Queries" heading.
TopTable ==
    LET i == CHOOSE i \in 1..Len(report) : IsTopHeading(report[i])
    IN  report[i + 1].data

QuerySnapshot == raw_dir[latest.query_stats].df

TopTableWritten ==
    /\ Past("query")
    /\ \E i \in 1..(Len(report) - 1) :
          IsTopHeading(report[i]) /\ report[i + 1].text = "|table|"

\* C4: a snapshot with more rows than top_n_queries, of distinct total times,
\* in any row order: the table shows exactly the top_n_queries rows of the
\* highest total_ms, highest first.
C4_TopNHighest ==
    (TopTableWritten /\ Len(QuerySnapshot.rows) > TopN(config).value)
    => /\ Len(TopTable) = TopN(config).value
       /\ \A i, j \in 1..Len(TopTable) :
             i < j => TopTable[i].total_ms > TopTable[j].total_ms
       /\ \A k \in 1..Len(QuerySnapshot.rows) :
             \/ \E i \in 1..Len(TopTable) :
                   TopTable[i].total_ms = QuerySnapshot.rows[k].total_ms
             \/ \A i \in 1..Len(TopTable) :
                   TopTable[i].total_ms > QuerySnapshot.rows[k].total_ms

\* The rows of the table written after a line, <<>> when no table follows it.
TableAfter(text) ==
    IF Written(text) /\ Following(text).text = "|table|" THEN Following(text).data ELSE <<>>

TableSnapshot == raw_dir[latest.table_sizes].df

BytesOf(table_name) ==
    LET k == CHOOSE k \in 1..Len(TableSnapshot.rows) :
                 TableSnapshot.rows[k].table_name = table_name
    IN  TableSnapshot.rows[k].total_size_bytes

\* C5: both table-size listings show at most 10 tables, largest first by
\* total_size_bytes / 1,048,576, whatever the order of the rows in the file.
C5_TablesRankedBySize ==
    (pc = "done" /\ HasRows("table_sizes_")
        /\ "total_size_bytes" \in TableSnapshot.columns)
    => LET largest == TableAfter("### Largest Tables")
           by_total == TableAfter("Largest Tables by Total Size:")
       IN  /\ Len(largest) = Min(10, Len(TableSnapshot.rows))
           /\ Len(by_total) = Min(10, Len(TableSnapshot.rows))
           /\ \A i, j \in 1..Len(largest) :
                 i < j => BytesOf(largest[i].Table) >= BytesOf(largest[j].Table)
           /\ \A i, j \in 1..Len(by_total) :
                 i < j => by_total[i].total_size_bytes >= by_total[j].total_size_bytes

\* Two characters that are the same letter in either case, or the same character.
SameLetter(c, d) ==
    \/ c = d
    \/ \E k \in 1..Len(Lowers) : {c, d} = {CharAt(Lowers, k), CharAt(Uppers, k)}

\* The text holds the words somewhere, in any letter case.
Mentions(text, words) ==
    \E i \in 1..(Len(text) - Len(words) + 1) :
        \A k \in 1..Len(words) : SameLetter(CharAt(text, i + k - 1), CharAt(words, k))

\* The call returned a suggestion for the row that lists the finding.
Emitted(row, finding) ==
    \E k \in 1..Len(findings) :
        /\ findings[k].query = row.query
        /\ findings[k].calls = row.calls
        /\ \E n \in 1..Len(findings[k].suggestions) : findings[k].suggestions[n] = finding

QueryPatternsReturned == pc = "analyze_query_patterns returned"

\* C6: analyze_query_patterns lists 'Avoid SELECT *' for a row exactly when
\* the row's query holds "select *" in some letter case.
C6_SelectStarFinding ==
    QueryPatternsReturned =>
        \A i \in 1..Len(df_rules.rows) :
            Emitted(df_rules.rows[i], "Avoid SELECT *")
                <=> Mentions(df_rules.rows[i].query, "select *")

\* C6 witness: a row whose query spells "Select *" in mixed case got the finding.
C6_Witness ==
    /\ QueryPatternsReturned
    /\ \E i \in 1..Len(df_rules.rows) :
          /\ Contains(df_rules.rows[i].query, "Select *")
          /\ Emitted(df_rules.rows[i], "Avoid SELECT *")

\* C7: analyze_query_patterns lists 'Missing LIMIT with ORDER BY' for a row
\* exactly when its query holds ORDER BY, holds no LIMIT, and calls > 10:
\* at 11 calls it does, at 10 calls it does not.
C7_MissingLimitFinding ==
    QueryPatternsReturned =>
        \A i \in 1..Len(df_rules.rows) :
            Emitted(df_rules.rows[i], "Missing LIMIT with ORDER BY")
                <=> /\ Mentions(df_rules.rows[i].query, "order by")
                    /\ ~Mentions(df_rules.rows[i].query, "limit")
                    /\ df_rules.rows[i].calls > 10

\* C7 witness: a row called 11 times got the missing-LIMIT finding.
C7_Witness ==
    /\ QueryPatternsReturned
    /\ \E i \in 1..Len(df_rules.rows) :
          /\ df_rules.rows[i].calls = 11
          /\ Emitted(df_rules.rows[i], "Missing LIMIT with ORDER BY")

LowCacheHitLine ==
    "  - **Low cache hit ratio**. Consider increasing shared_buffers if you have available RAM."

GoodCacheHitLine == "  - Good cache hit ratio."

\* The resource-usage section has rendered a cache_hit_ratio column.
CacheHitRatioRendered ==
    /\ Past("resource")
    /\ HasRows("db_stats_")
    /\ "cache_hit_ratio" \in raw_dir[latest.db_stats].df.columns

RenderedRatio == raw_dir[latest.db_stats].df.rows[1].cache_hit_ratio

\* C8: a cache hit ratio below 90.00 writes the low-ratio advisory and not
\* the good marker, a ratio of 90.00 or more the good marker and not the
\* advisory; one of the two, never both, once the column is rendered.
C8_CacheHitRatioClassified ==
    CacheHitRatioRendered =>
        /\ (RenderedRatio # NaN /\ RenderedRatio <= 8999)
              => (Written(LowCacheHitLine) /\ ~Written(GoodCacheHitLine))
        /\ (RenderedRatio # NaN /\ RenderedRatio >= 9000)
              => (Written(GoodCacheHitLine) /\ ~Written(LowCacheHitLine))
        /\ Written(LowCacheHitLine) # Written(GoodCacheHitLine)

\* C8 witness: a ratio of exactly 90.00 was rendered with the good marker.
C8_Witness ==
    /\ CacheHitRatioRendered
    /\ RenderedRatio = 9000
    /\ Written(GoodCacheHitLine)

\* A file of the category: the category's prefix, a stamp, ".csv".
IsSnapshotOf(name, prefix) ==
    \E stamp_len \in 0..(Len(name) - Len(prefix) - Len(".csv")) :
        name = prefix \o SubSeq(name, Len(prefix) + 1, Len(prefix) + stamp_len) \o ".csv"

SnapshotsOf(prefix) == {name \in DOMAIN raw_dir : IsSnapshotOf(name, prefix)}

\* The file a section chose is the greatest name among the category's
\* snapshots, and the section read that file; with no snapshot it chose none.
ChoseLatest(chosen, prefix) ==
    IF SnapshotsOf(prefix) = {}
    THEN chosen = ""
    ELSE /\ chosen \in SnapshotsOf(prefix)
         /\ \A name \in SnapshotsOf(prefix) : name = chosen \/ StrLess(name, chosen)
         /\ Written(ErrorNote(ErrorWhat(prefix), "No columns to parse from file").text)
               <=> ~raw_dir[chosen].readable

\* C9: each section reads the lexicographically greatest file among those
\* named for its category, never an older one nor another category's, and
\* takes the category as absent when there is none.
C9_LatestSnapshotRead ==
    /\ Past("query") => ChoseLatest(latest.query_stats, "query_stats_")
    /\ Past("resource") => /\ ChoseLatest(latest.db_stats, "db_stats_")
                           /\ ChoseLatest(latest.bgwriter_stats, "bgwriter_stats_")
    /\ Past("connection") => ChoseLatest(latest.conn_info, "connection_info_")
    /\ Past("lock") => ChoseLatest(latest.lock_info, "lock_info_")
    /\ Past("table") => ChoseLatest(latest.table_size, "table_sizes_")
    /\ Past("sizes") => ChoseLatest(latest.table_sizes, "table_sizes_")

\* C9 witness: among two snapshots and two files that are not snapshots, all
\* with later names, the run chose the later snapshot.
C9_Witness ==
    /\ pc = "done"
    /\ {"query_stats_20231231_235959.csv", "query_stats_20240102_000000.csv",
        "query_stats_20250101_000000.txt", "old_query_stats_20250101_000000.csv"}
          \subseteq DOMAIN raw_dir
    /\ "query_stats_backup.csv" \notin DOMAIN raw_dir
    /\ latest.query_stats = "query_stats_20240102_000000.csv"

ConfigIncomplete ==
    \/ MissingDirectoryKey(config) # ""
    \/ "analysis" \notin DOMAIN config

\* C10: with a required configuration section or key missing, the run aborts
\* and no report file is created or written.
C10_ConfigErrorIsFatal ==
    ConfigIncomplete => (artifact = "none" /\ report = <<>> /\ pc \in {"start", "aborted"})

TablePatternsReturned == pc = "analyze_table_sizes returned"

\* The query finding at position k of the returned list comes from row i.
QueryFindingOf(k, i) ==
    /\ findings[k].query = TruncateQuery(df_rules.rows[i].query, 200)
    /\ findings[k].calls = df_rules.rows[i].calls

\* The schema finding at position k of the returned list comes from row i.
TableFindingOf(k, i) ==
    findings[k].table
        = df_rules.rows[i].schema_name \o "." \o df_rules.rows[i].table_name

\* C11: in the list either rule-engine function returns, a finding that comes
\* before another is the finding of the same or of an earlier row of the
\* snapshot; for schema findings this holds across the two rules.
C11_FindingsInRowOrder ==
    /\ QueryPatternsReturned =>
          \A a, b \in 1..Len(findings) :
              a < b => \E i, j \in 1..Len(df_rules.rows) :
                          i <= j /\ QueryFindingOf(a, i) /\ QueryFindingOf(b, j)
    /\ TablePatternsReturned =>
          \A a, b \in 1..Len(findings) :
              a < b => \E i, j \in 1..Len(df_rules.rows) :
                          i <= j /\ TableFindingOf(a, i) /\ TableFindingOf(b, j)

LockSnapshot == raw_dir[latest.lock_info].df

\* The lock section has rendered a snapshot with rows and a granted column.
LocksRendered ==
    /\ Past("lock")
    /\ HasRows("lock_info_")
    /\ "granted" \in LockSnapshot.columns

\* The numbers the report gives after a label.
Reported(label) ==
    {n \in 0..Len(LockSnapshot.rows) : Written(label \o ToString(n))}

\* The pids of the rows in the waiting-locks listing.
ListedWaiting ==
    LET listing == TableAfter("Waiting Locks:")
    IN  {listing[k].pid : k \in 1..Len(listing)}

\* C12: for every lock snapshot, rows without a granted value included, the
\* reported granted and waiting counts add up to the reported total, and
\* the waiting-locks listing holds every row whose granted cell is false.
C12_LockCountsPartition ==
    LocksRendered =>
        /\ \E total \in Reported("Total active locks: "),
              granted \in Reported("Total granted locks: "),
              waiting \in Reported("Total waiting locks: ") :
              granted + waiting = total
        /\ \A k \in 1..Len(LockSnapshot.rows) :
              LockSnapshot.rows[k].granted = "False"
                  => LockSnapshot.rows[k].pid \in ListedWaiting

\* The query holds LIKE, in any letter case, before a quoted literal that
\* starts with the wildcard %.
HasLeadingWildcard(query) ==
    \/ Mentions(query, "like '%")
    \/ Mentions(query, "like \"%")

\* C13: analyze_query_patterns lists 'Leading Wildcard LIKE' for a row
\* exactly when its query holds LIKE followed by a literal that starts with
\* a wildcard, whatever the letter case and whatever the search term.
C13_LeadingWildcardFinding ==
    QueryPatternsReturned =>
        \A i \in 1..Len(df_rules.rows) :
            Emitted(df_rules.rows[i], "Leading Wildcard LIKE")
                <=> HasLeadingWildcard(df_rules.rows[i].query)

DbStatsNotice == "No database statistics data found."

\* Some written line starts with the text.
WrittenStarting(text) == \E i \in 1..Len(report) : StartsWith(report[i].text, text)

\* Per category: the "no data" notice and the first line of the rendered data.
NoticeAndData ==
    { <<"No query statistics data found", "### Top ">>,
      <<"No table size data", "### Largest Tables">>,
      <<DbStatsNotice, "### Database Statistics">>,
      <<"No background writer statistics data found.", "### Background Writer Statistics">>,
      <<"No connection information found.", "Total active connections: ">>,
      <<"No lock information found.", "Total active locks: ">>,
      <<"No table size information found.", "Largest Tables by Total Size:">> }

\* C14: a report never holds both a category's "no data" notice and that
\* category's rendered data; the database statistics notice is written only
\* when the db_stats snapshot is absent or has no rows, never after the
\* cache hit ratio and the database size were rendered.
C14_NoticeExcludesData ==
    /\ \A pair \in NoticeAndData :
          ~(WrittenStarting(pair[1]) /\ WrittenStarting(pair[2]))
    /\ (Past("resource") /\ Written(DbStatsNotice))
          => \/ Glob(raw_dir, "db_stats_") = {}
             \/ /\ raw_dir[latest.db_stats].readable
                /\ Empty(raw_dir[latest.db_stats].df)

FirstDatum(item) == item.data[1]

IsQueryFinding(item) == EndsWith(item.text, ". **Query**") /\ Len(item.data) = 1

IsTableFinding(item) == StartsWith(item.text, "- ") /\ Len(item.data) = 1

\* The entries of the 'Query Optimization Opportunities' list, in order.
ListedQueryFindings == MapRows(SelectSeq(report, IsQueryFinding), FirstDatum)

\* The entries of the 'Table Optimization Opportunities' list, in order.
ListedTableFindings == MapRows(SelectSeq(report, IsTableFinding), FirstDatum)

\* The query section has called analyze_query_patterns.
QueryPatternsAnalyzed == Past("query") /\ Written("## 2. Optimization Recommendations")

\* The frame the table analysis section read.
AnalyzedTables == raw_dir[latest.table_size].df

\* The table section has called analyze_table_sizes and the call returned.
TableSizesAnalyzed ==
    /\ Past("table")
    /\ HasRows("table_sizes_")
    /\ "total_size_bytes" \in AnalyzedTables.columns
    /\ analyze_table_sizes(AnalyzedTables).raised = ""

ReturnedQueryFindings == analyze_query_patterns(QuerySnapshot)

ReturnedTableFindings == analyze_table_sizes(AnalyzedTables).value

\* C15 as claimed: every suggestion analyze_query_patterns returns is in the
\* report's query list and every finding analyze_table_sizes returns is in
\* its table list, however many there are.
C15_AllFindingsListed ==
    /\ QueryPatternsAnalyzed =>
          \A k \in 1..Len(ReturnedQueryFindings) :
              \E m \in 1..Len(ListedQueryFindings) :
                  ListedQueryFindings[m] = ReturnedQueryFindings[k]
    /\ TableSizesAnalyzed =>
          \A k \in 1..Len(ReturnedTableFindings) :
              \E m \in 1..Len(ListedTableFindings) :
                  ListedTableFindings[m] = ReturnedTableFindings[k]

\* C15 amended: the report's query list is the first 10 suggestions that
\* analyze_query_patterns returned, each with all the findings of its row,
\* and its table list is the first 5 findings that analyze_table_sizes
\* returned, both in the order returned; later ones are left out.
C15_FirstFindingsListed ==
    /\ QueryPatternsAnalyzed =>
          ListedQueryFindings
              = SubSeq(ReturnedQueryFindings, 1, Min(10, Len(ReturnedQueryFindings)))
    /\ TableSizesAnalyzed =>
          ListedTableFindings
              = SubSeq(ReturnedTableFindings, 1, Min(5, Len(ReturnedTableFindings)))

\* C15 witness: a finished report over 11 suggestions and more than 5 schema
\* findings lists 10 and 5 of them, and a Multiple Indexes finding is left out.
C15_Witness ==
    /\ pc = "done"
    /\ QueryPatternsAnalyzed
    /\ TableSizesAnalyzed
    /\ Len(ReturnedQueryFindings) > 10
    /\ Len(ListedQueryFindings) = 10
    /\ Len(ReturnedTableFindings) > 5
    /\ Len(ListedTableFindings) = 5
    /\ \E k \in 1..Len(ReturnedTableFindings) :
          /\ ReturnedTableFindings[k].rule = "Multiple Indexes"
          /\ \A m \in 1..Len(ListedTableFindings) :
                ListedTableFindings[m] # ReturnedTableFindings[k]

=============================================================================
